---- MODULE Spec2Model ----
(***************************************************************************)
(* Model of enum_chain.py: a sequential driver that checks five external   *)
(* tools, loads a target list, and for every target runs the chain         *)
(* subfinder -> dnsx -> naabu -> httpx -> katana (-> httpx seeding).        *)
(*                                                                         *)
(* Text (file contents, captured stdout, target names) is a sequence of    *)
(* one-character strings.  An optional value (Python None) is <<>>, a      *)
(* present value v is <<v>>.  An output file path                          *)
(* os.path.join(output_base_dir, f"{target}_dnsx.txt") is the pair         *)
(* <<target, "_dnsx.txt">>.                                                 *)
(***************************************************************************)
EXTENDS Integers, Sequences, FiniteSets, TLC

VARIABLES
    pc,             \* position of main(): "check", "load", "setup", a stage, "exit"
    args,           \* parsed arguments: [dry_run, proxy]
    os_environ,     \* os.environ of the script's process
    which_ok,       \* whether the `which` binary itself can be launched
    tool_idx,       \* position of the loop of check_tools_installed
    missing_tools,  \* missing_tools of check_tools_installed
    targets,        \* targets of main()
    dir_exists,     \* whether output_base_dir exists
    fs,             \* files of output_base_dir: path -> [content, origin]
    proxy_url,      \* proxy_url of main()
    current_env,    \* current_env of main()
    t,              \* index of the for loop over targets (0 before the loop)
    current_input,  \* current_input of main() (optional text)
    input_origin,   \* iteration whose tools produced current_input (0: none)
    log,            \* console output and subprocess invocations, in order
    exit_code,      \* argument of sys.exit / 0 at normal end (when pc = "exit")
    last_call       \* the latest run_command call: what the subprocess did
                    \* and what run_command returned

vars == <<pc, args, os_environ, which_ok, tool_idx, missing_tools, targets,
          dir_exists, fs, proxy_url, current_env, t, current_input,
          input_origin, log, exit_code, last_call>>

(***************************************************************************)
(* Bounds of the model                                                     *)
(***************************************************************************)
MaxListLen == 4     \* longest list-file content, in characters

(***************************************************************************)
(* Program constants                                                       *)
(***************************************************************************)
TOOL_CHAIN == <<"subfinder", "dnsx", "naabu", "httpx", "katana">>

\* stdout of the synthetic CompletedProcess of a dry run: "Simulated output\n"
SimulatedOutput ==
    <<"S","i","m","u","l","a","t","e","d"," ","o","u","t","p","u","t","\n">>

None == <<>>
Some(v) == <<v>>

(***************************************************************************)
(* Python string helpers, computed character by character                  *)
(***************************************************************************)
IsSpace(c) == c \in {" ", "\n"}

RECURSIVE LStrip(_)
LStrip(s) == IF s # <<>> /\ IsSpace(Head(s)) THEN LStrip(Tail(s)) ELSE s

RECURSIVE RStrip(_)
RStrip(s) ==
    IF s # <<>> /\ IsSpace(s[Len(s)]) THEN RStrip(SubSeq(s, 1, Len(s) - 1))
    ELSE s

\* variant: only leading whitespace is removed
Strip_Left(s) == LStrip(s)

\* str.strip()
Strip(s) == RStrip(LStrip(s))

\* iteration over a text file / readlines(): lines keep their "\n"
RECURSIVE ReadLines(_)
ReadLines(s) ==
    IF s = <<>> THEN <<>>
    ELSE LET nl == {i \in 1..Len(s) : s[i] = "\n"} IN
         IF nl = {} THEN <<s>>
         ELSE LET k == CHOOSE i \in nl : \A j \in nl : i <= j IN
              <<SubSeq(s, 1, k)>> \o ReadLines(SubSeq(s, k + 1, Len(s)))

\* the characters of s up to its first whitespace character
RECURSIVE TakeWord(_)
TakeWord(s) ==
    IF s = <<>> \/ IsSpace(Head(s)) THEN <<>>
    ELSE <<Head(s)>> \o TakeWord(Tail(s))

\* str.split() with no argument: the whitespace-delimited tokens
RECURSIVE Split(_)
Split(s) ==
    LET r == LStrip(s) IN
    IF r = <<>> THEN <<>>
    ELSE LET w == TakeWord(r) IN
         <<w>> \o Split(SubSeq(r, Len(w) + 1, Len(r)))

\* '\n'.join(parts)
RECURSIVE JoinLines(_)
JoinLines(parts) ==
    IF parts = <<>> THEN <<>>
    ELSE IF Len(parts) = 1 THEN parts[1]
    ELSE parts[1] \o <<"\n">> \o JoinLines(Tail(parts))

\* Python truthiness of an optional text: None and "" are falsy
Truthy(v) == v # None /\ v[1] # <<>>

(***************************************************************************)
(* Inputs of the model                                                     *)
(***************************************************************************)
\* values of -d
Domains == {<<>>, <<"a">>, <<"a", "a">>}

\* characters of a list file, and every content of at most MaxListLen characters
ListChars == {"a", " ", "\n"}
ListContents == UNION {[1..n -> ListChars] : n \in 0..MaxListLen}

\* value of -p when given
ProxyAddress == "127.0.0.1:8080"
\* args.proxy: -p absent, -p '' and -p 127.0.0.1:8080
ProxyValues == {None, Some(""), Some(ProxyAddress)}

\* environments the script can be started in
InheritedEnvs ==
    { [PATH |-> "/usr/bin"],
      [PATH |-> "/usr/bin", HTTP_PROXY |-> "http://corp:3128",
       HTTPS_PROXY |-> "http://corp:3128"] }

\* output files of one target
Suffixes == {"_subfinder.txt", "_dnsx.txt", "_naabu.txt", "_httpx_details.txt",
             "_urls_for_burp.txt", "_katana_crawled_paths.txt"}
LaterSuffixes == Suffixes \ {"_subfinder.txt"}

File(target, suffix) == <<target, suffix>>

\* a file left by an earlier run (origin 0)
StaleDetails == <<"a", " ", "b", "\n">>
Stale(content) == [content |-> content, origin |-> 0]

\* contents of the output directory before the run, when it exists
InitialDirs ==
    { <<>>,
      [f \in {File(<<"a">>, "_httpx_details.txt")} |-> Stale(StaleDetails)],
      [f \in {File(<<"a">>, s) : s \in Suffixes} |-> Stale(StaleDetails)] }

(***************************************************************************)
(* Console lines and subprocess invocations recorded in log                *)
(***************************************************************************)
\* ev: "which" / "run" (run_command) / "warn" / "summary" / "fatal" (missing
\* tools) / "nofile" / "notargets" / "typeerror" (traceback of the uncaught
\* TypeError of -d '') / "critical" (launch failure)
\* of a run_command call: it, stage, tool: the iteration, the stage (6: seeding)
\* and command[0]; envarg, input, ofile: the arguments environment, input_data
\* and output_file; env: the environment the subprocess gets; origin: the
\* iteration whose tools produced what the tool reads; kind, rc: what the
\* subprocess did ("none": no subprocess was started); launched, fatal: see
\* run_command; empty: `not current_input` after the stage
Ev(kind) ==
    [ev |-> kind, it |-> 0, stage |-> 0, tool |-> "", envarg |-> None,
     env |-> <<>>, input |-> None, origin |-> 0, launched |-> FALSE,
     fatal |-> FALSE, empty |-> FALSE, ofile |-> None, kind |-> "none",
     rc |-> 0]

\* a run_command call: the subprocess (NoProc in a dry run), the output_file
\* argument, and the outcome (sys.exit, or the returned CompletedProcess)
NoProc == [kind |-> "none", rc |-> 0, stdout |-> <<>>, stderr |-> <<>>]
NoCall ==
    [made |-> FALSE, dry_run |-> FALSE, proc |-> NoProc, ofile |-> None,
     fatal |-> FALSE, returncode |-> 0, stdout |-> <<>>, stderr |-> <<>>]
Call(proc, ofile, dry_run, r) ==
    [made |-> TRUE, dry_run |-> dry_run,
     proc |-> IF dry_run THEN NoProc ELSE proc, ofile |-> ofile,
     fatal |-> r.fatal, returncode |-> r.returncode, stdout |-> r.stdout,
     stderr |-> r.stderr]

Init ==
    /\ pc = "check"
    /\ args \in [dry_run : BOOLEAN, proxy : ProxyValues]
    /\ os_environ \in InheritedEnvs
    /\ which_ok \in BOOLEAN
    /\ tool_idx = 1
    /\ missing_tools = <<>>
    /\ targets = <<>>
    /\ dir_exists \in BOOLEAN
    /\ fs \in (IF dir_exists THEN InitialDirs ELSE {<<>>})
    /\ proxy_url = ""
    /\ current_env = <<>>
    /\ t = 0
    /\ current_input = None
    /\ input_origin = 0
    /\ log = <<>>
    /\ exit_code = 0
    /\ last_call = NoCall

(***************************************************************************)
(* check_tools_installed                                                   *)
(***************************************************************************)
\* one iteration of `for tool in tools`: subprocess.run(['which', tool]);
\* found is the exit status of which, which_ok = FALSE raises FileNotFoundError
CheckTool ==
    /\ pc = "check"
    /\ tool_idx <= Len(TOOL_CHAIN)
    /\ \E found \in BOOLEAN :
         /\ missing_tools' =
                IF which_ok /\ found THEN missing_tools
                ELSE Append(missing_tools, TOOL_CHAIN[tool_idx])
         /\ log' = Append(log, [Ev("which") EXCEPT !.tool = TOOL_CHAIN[tool_idx],
                                                   !.env = os_environ,
                                                   !.launched = which_ok])
    /\ tool_idx' = tool_idx + 1
    /\ UNCHANGED <<last_call, pc, args, os_environ, which_ok, targets, dir_exists, fs,
                   proxy_url, current_env, t, current_input, input_origin,
                   exit_code>>

\* variant: the verdict never exits
MissingExit_Never(missing) == FALSE

\* `if missing_tools: ... sys.exit(1)`
MissingExit(missing) == missing # <<>>

CheckVerdict ==
    /\ pc = "check"
    /\ tool_idx > Len(TOOL_CHAIN)
    /\ IF MissingExit(missing_tools)
       THEN /\ log' = Append(log, Ev("fatal"))
            /\ pc' = "exit"
            /\ exit_code' = 1
       ELSE /\ pc' = "load"
            /\ UNCHANGED <<log, exit_code>>
    /\ UNCHANGED <<last_call, args, os_environ, which_ok, tool_idx,
                   missing_tools, targets,
                   dir_exists, fs, proxy_url, current_env, t, current_input,
                   input_origin>>

(***************************************************************************)
(* main: target loading (lines 131-143)                                    *)
(***************************************************************************)
\* [line.strip() for line in f if line.strip()]
RECURSIVE StripNonBlank(_)
StripNonBlank(lines) ==
    IF lines = <<>> THEN <<>>
    ELSE IF Strip(Head(lines)) # <<>>
         THEN <<Strip(Head(lines))>> \o StripNonBlank(Tail(lines))
         ELSE StripNonBlank(Tail(lines))

LoadList(content) == StripNonBlank(ReadLines(content))

\* domain: value of -d or None; list_file: None when the path does not exist,
\* else the content of the file
\* lines 131-143 for one value of -d / one state of the list file; seen: what
\* is put in the log about the input that was read
\* `if args.domain:` tests the truth value: with -d '' the else branch runs
\* with args.list = None (the options exclude each other) and open(None)
\* raises a TypeError nothing catches: traceback, exit status 1
LoadFrom(domain, list_file, seen) ==
    LET found == Truthy(domain) \/ list_file # None
        loaded == IF Truthy(domain) THEN <<domain[1]>>
                  ELSE IF list_file # None THEN LoadList(list_file[1])
                  ELSE <<>>
    IN  /\ domain # None => list_file = None
        /\ targets' = loaded
        /\ IF domain # None /\ ~Truthy(domain)
           THEN /\ log' = log \o seen \o <<Ev("typeerror")>>
                /\ pc' = "exit" /\ exit_code' = 1
           ELSE IF ~found
           THEN /\ log' = log \o seen \o <<Ev("nofile")>>
                /\ pc' = "exit" /\ exit_code' = 1
           ELSE IF loaded = <<>>
           THEN /\ log' = log \o seen \o <<Ev("notargets")>>
                /\ pc' = "exit" /\ exit_code' = 1
           ELSE /\ pc' = "setup"
                /\ log' = log \o seen
                /\ UNCHANGED exit_code

LoadTargets ==
    /\ pc = "load"
    /\ \E domain \in {None} \cup {Some(d) : d \in Domains},
          list_file \in {None} \cup {Some(c) : c \in ListContents} :
         LoadFrom(domain, list_file, <<>>)
    /\ UNCHANGED <<last_call, args, os_environ, which_ok, tool_idx,
                   missing_tools, dir_exists, fs, proxy_url, current_env, t,
                   current_input, input_origin>>

\* the same step, keeping in the log (entry "read") the content of the list
\* file that was read
LoadRecorded ==
    /\ pc = "load"
    /\ \E domain \in {None} \cup {Some(d) : d \in Domains},
          list_file \in {None} \cup {Some(c) : c \in ListContents} :
         LoadFrom(domain, list_file,
                  <<[Ev("read") EXCEPT !.input = list_file]>>)
    /\ UNCHANGED <<last_call, args, os_environ, which_ok, tool_idx,
                   missing_tools, dir_exists, fs, proxy_url, current_env, t,
                   current_input, input_origin>>

(***************************************************************************)
(* main: output directory and proxy environment (lines 145-160)            *)
(***************************************************************************)
\* truth value of args.proxy: None and "" are falsy
ProxyGiven(proxy) == proxy # None /\ proxy[1] # ""

\* `if args.proxy:` (line 154)
ProxyConfigured == ProxyGiven(args.proxy)

\* f"http://{args.proxy}"
ProxyUrl(address) == "http://" \o address

\* os.environ.copy() with HTTP_PROXY and HTTPS_PROXY set when -p is given
ProxyEnv(environ, url) ==
    [v \in DOMAIN environ \cup {"HTTP_PROXY", "HTTPS_PROXY"} |->
        IF v \in {"HTTP_PROXY", "HTTPS_PROXY"} THEN url ELSE environ[v]]

\* the effect of lines 152-157 on <<os.environ, current_env>>
PrepareEnv(environ, proxy) ==
    IF ProxyGiven(proxy)
    THEN [environ |-> environ, current |-> ProxyEnv(environ, ProxyUrl(proxy[1]))]
    ELSE [environ |-> environ, current |-> environ]

Setup ==
    /\ pc = "setup"
    /\ dir_exists' = TRUE
    /\ proxy_url' = IF ProxyConfigured THEN ProxyUrl(args.proxy[1]) ELSE ""
    /\ os_environ' = PrepareEnv(os_environ, args.proxy).environ
    /\ current_env' = PrepareEnv(os_environ, args.proxy).current
    /\ t' = 1
    /\ current_input' = None
    /\ pc' = "subfinder"
    /\ UNCHANGED <<last_call, args, which_ok, tool_idx, missing_tools, targets, fs,
                   input_origin, log, exit_code>>

(***************************************************************************)
(* run_command                                                             *)
(***************************************************************************)
\* what an external tool can do once asked to start: the launch itself fails
\* (kind "oserror"), or it runs and exits with rc, stdout and stderr
StdoutSet == {<<>>, <<"a", "\n">>}
StderrSet == {<<>>, <<"e">>}
ExitCodes == {0, 2}
Exited(rc, stdout, stderr) ==
    [kind |-> "exit", rc |-> rc, stdout |-> stdout, stderr |-> stderr]
\* every exit status with and without stdout, every stdout and every exit
\* status with and without stderr
ProcOutcomes ==
    { Exited(0, <<>>, <<"e">>), Exited(0, <<"a", "\n">>, <<>>),
      Exited(2, <<>>, <<>>), Exited(2, <<"a", "\n">>, <<"e">>),
      [kind |-> "oserror", rc |-> 0, stdout |-> <<>>, stderr |-> <<>>] }

\* variant: a non-zero exit status is fatal like a launch failure
run_command_ExitOnFailure(proc, output_file, dry_run) ==
    IF dry_run
    THEN [fatal |-> FALSE, launched |-> FALSE, returncode |-> 0,
          stdout |-> SimulatedOutput, stderr |-> <<>>, saved |-> None]
    ELSE IF proc.kind = "oserror"
    THEN [fatal |-> TRUE, launched |-> FALSE, returncode |-> 1,
          stdout |-> <<>>, stderr |-> <<>>, saved |-> None]
    ELSE IF proc.rc = 0
    THEN [fatal |-> FALSE, launched |-> TRUE, returncode |-> 0,
          stdout |-> proc.stdout, stderr |-> proc.stderr,
          saved |-> IF output_file # None THEN Some(proc.stdout) ELSE None]
    ELSE [fatal |-> TRUE, launched |-> TRUE, returncode |-> 1,
          stdout |-> <<>>, stderr |-> proc.stderr, saved |-> None]

\* variant: a launch failure is reported like a failing tool, not fatal
run_command_LaunchSoft(proc, output_file, dry_run) ==
    IF dry_run
    THEN [fatal |-> FALSE, launched |-> FALSE, returncode |-> 0,
          stdout |-> SimulatedOutput, stderr |-> <<>>, saved |-> None]
    ELSE IF proc.kind = "oserror"
    THEN [fatal |-> FALSE, launched |-> FALSE, returncode |-> 1,
          stdout |-> <<>>, stderr |-> <<>>, saved |-> None]
    ELSE IF proc.rc = 0
    THEN [fatal |-> FALSE, launched |-> TRUE, returncode |-> 0,
          stdout |-> proc.stdout, stderr |-> proc.stderr,
          saved |-> IF output_file # None THEN Some(proc.stdout) ELSE None]
    ELSE [fatal |-> FALSE, launched |-> TRUE, returncode |-> 1,
          stdout |-> <<>>, stderr |-> proc.stderr, saved |-> None]

\* variant: the output file is written whatever the exit status
run_command_SaveOnFailure(proc, output_file, dry_run) ==
    IF dry_run
    THEN [fatal |-> FALSE, launched |-> FALSE, returncode |-> 0,
          stdout |-> SimulatedOutput, stderr |-> <<>>, saved |-> None]
    ELSE IF proc.kind = "oserror"
    THEN [fatal |-> TRUE, launched |-> FALSE, returncode |-> 1,
          stdout |-> <<>>, stderr |-> <<>>, saved |-> None]
    ELSE IF proc.rc = 0
    THEN [fatal |-> FALSE, launched |-> TRUE, returncode |-> 0,
          stdout |-> proc.stdout, stderr |-> proc.stderr,
          saved |-> IF output_file # None THEN Some(proc.stdout) ELSE None]
    ELSE [fatal |-> FALSE, launched |-> TRUE, returncode |-> 1,
          stdout |-> <<>>, stderr |-> proc.stderr,
          saved |-> IF output_file # None THEN Some(proc.stdout) ELSE None]

\* the outcome of run_command for a subprocess behaving as proc:
\*   fatal: sys.exit(1) was called; launched: a subprocess was started;
\*   returncode/stdout/stderr: the returned CompletedProcess;
\*   saved: the text written to output_file, if any
run_command(proc, output_file, dry_run) ==
    IF dry_run
    THEN [fatal |-> FALSE, launched |-> FALSE, returncode |-> 0,
          stdout |-> SimulatedOutput, stderr |-> <<>>, saved |-> None]
    ELSE IF proc.kind = "oserror"
    THEN [fatal |-> TRUE, launched |-> FALSE, returncode |-> 1,
          stdout |-> <<>>, stderr |-> <<>>, saved |-> None]
    ELSE IF proc.rc = 0
    THEN [fatal |-> FALSE, launched |-> TRUE, returncode |-> 0,
          stdout |-> proc.stdout, stderr |-> proc.stderr,
          saved |-> IF output_file # None THEN Some(proc.stdout) ELSE None]
    ELSE [fatal |-> FALSE, launched |-> TRUE, returncode |-> 1,
          stdout |-> <<>>, stderr |-> proc.stderr, saved |-> None]

(***************************************************************************)
(* main: the loop over targets (lines 164-289)                             *)
(***************************************************************************)
\* variant: an empty result never stops the chain
ShortCircuit_Never(input, dry_run) == FALSE

\* `if not current_input and not args.dry_run: ... continue`
ShortCircuit(input, dry_run) == ~Truthy(input) /\ ~dry_run

\* variant: every stage is passed the proxy environment
StageEnv_All(stage, env) == Some(env)

\* the environment= argument of the run_command call of a stage (6: seeding)
StageEnv(stage, env) == IF stage \in {4, 5, 6} THEN Some(env) ELSE None

\* variant: the seeding step forgets the dry-run flag
SeedCondition_IgnoreDry(proxy, dry_run) == ProxyGiven(proxy)

\* `if args.proxy and not args.dry_run` (line 270)
SeedCondition(proxy, dry_run) == ProxyGiven(proxy) /\ ~dry_run

\* fs after open(path, 'w').write(content) during iteration origin
WriteFile(files, path, content, origin) ==
    [f \in DOMAIN files \cup {path} |->
        IF f = path THEN [content |-> content, origin |-> origin] ELSE files[f]]

\* the log entry of one run_command call
RunEvent(stage, tool, input, origin, ofile, proc, r) ==
    LET envarg == StageEnv(stage, current_env) IN
    [Ev("run") EXCEPT !.it = t, !.stage = stage, !.tool = tool,
                      !.envarg = envarg,
                      !.env = IF envarg # None THEN envarg[1] ELSE os_environ,
                      !.input = input, !.origin = origin, !.ofile = ofile,
                      !.launched = r.launched, !.fatal = r.fatal,
                      !.kind = IF args.dry_run THEN "none" ELSE proc.kind,
                      !.rc = IF args.dry_run THEN 0 ELSE proc.rc]

\* sys.exit(1) of run_command
Abort(event) ==
    /\ log' = log \o <<event, Ev("critical")>>
    /\ pc' = "exit"
    /\ exit_code' = 1
    /\ UNCHANGED <<t, current_input, input_origin, fs>>

\* variant: `break` instead of `continue`
NextTarget_Break(input) ==
    pc' = "exit" /\ exit_code' = 0 /\ current_input' = input /\ UNCHANGED t

\* `continue`, or the end of the loop body, with current_input = input: the
\* next target, whose iteration starts with `current_input = None` (line 169),
\* or the end of main
NextTarget(input) ==
    IF t < Len(targets)
    THEN /\ t' = t + 1 /\ pc' = "subfinder" /\ current_input' = None
         /\ UNCHANGED exit_code
    ELSE /\ pc' = "exit" /\ exit_code' = 0 /\ current_input' = input
         /\ UNCHANGED t

\* the end of a stage that left current_input = input: warn and continue, or
\* go on to the next stage
Advance(event, input, next) ==
    IF ShortCircuit(input, args.dry_run)
    THEN /\ log' = log \o <<[event EXCEPT !.empty = ~Truthy(input)],
                            [Ev("warn") EXCEPT !.it = t, !.stage = event.stage]>>
         /\ NextTarget(input)
    ELSE /\ log' = Append(log, [event EXCEPT !.empty = ~Truthy(input)])
         /\ pc' = next
         /\ current_input' = input
         /\ UNCHANGED <<t, exit_code>>

\* 1. subfinder (lines 171-186)
Subfinder ==
    /\ pc = "subfinder"
    /\ \E proc \in ProcOutcomes :
         LET r == run_command(proc, None, args.dry_run)
             event == RunEvent(1, "subfinder", None, 0, None, proc, r)
             out == File(targets[t], "_subfinder.txt")
         IN  /\ last_call' = Call(proc, None, args.dry_run, r)
             /\ IF r.fatal THEN Abort(event)
                ELSE /\ input_origin' = t
                     /\ fs' = IF Truthy(Some(r.stdout)) /\ ~args.dry_run
                              THEN WriteFile(fs, out, r.stdout, t) ELSE fs
                     /\ Advance(event, Some(r.stdout), "dnsx")
    /\ UNCHANGED <<args, os_environ, which_ok, tool_idx, missing_tools, targets,
                   dir_exists, proxy_url, current_env>>

\* a stage that pipes current_input through a tool and saves its stdout
PipeStage(stage, tool, suffix, next) ==
    \E proc \in ProcOutcomes :
         LET out == File(targets[t], suffix)
             r == run_command(proc, Some(out), args.dry_run)
             event == RunEvent(stage, tool, current_input, input_origin,
                               Some(out), proc, r)
         IN  /\ last_call' = Call(proc, Some(out), args.dry_run, r)
             /\ IF r.fatal THEN Abort(event)
                ELSE /\ input_origin' = t
                     /\ fs' = IF r.saved # None
                              THEN WriteFile(fs, out, r.saved[1], t) ELSE fs
                     /\ Advance(event, Some(r.stdout), next)

\* 2. dnsx (lines 189-199)
Dnsx ==
    /\ pc = "dnsx"
    /\ PipeStage(2, "dnsx", "_dnsx.txt", "naabu")
    /\ UNCHANGED <<args, os_environ, which_ok, tool_idx, missing_tools, targets,
                   dir_exists, proxy_url, current_env>>

\* 3. naabu (lines 202-212)
Naabu ==
    /\ pc = "naabu"
    /\ PipeStage(3, "naabu", "_naabu.txt", "httpx")
    /\ UNCHANGED <<args, os_environ, which_ok, tool_idx, missing_tools, targets,
                   dir_exists, proxy_url, current_env>>

\* what httpx can leave in the file named by -o: nothing (None), or a content
DetailSet == { <<>>, <<" ", "a", "\n", "\n", "b", " ", "a">> }
DetailWrites == {None} \cup {Some(c) : c \in DetailSet}

\* lines 232-235: the first whitespace-delimited token of every non-blank line
RECURSIVE FirstTokens(_)
FirstTokens(lines) ==
    IF lines = <<>> THEN <<>>
    ELSE LET parts == Split(Strip(Head(lines))) IN
         (IF parts # <<>> THEN <<parts[1]>> ELSE <<>>)
            \o FirstTokens(Tail(lines))

\* variant: the whole stripped line is kept instead of its first token
CleanUrls_WholeLines(content) == StripNonBlank(ReadLines(content))

CleanUrls(content) == FirstTokens(ReadLines(content))

\* 4. httpx (lines 215-251)
Httpx ==
    /\ pc = "httpx"
    /\ \E proc \in ProcOutcomes, written \in DetailWrites :
         LET details == File(targets[t], "_httpx_details.txt")
             burp == File(targets[t], "_urls_for_burp.txt")
             r == run_command(proc, None, args.dry_run)
             event == RunEvent(4, "httpx", current_input, input_origin, None,
                               proc, r)
             \* the file system once the tool has exited
             fs1 == IF r.launched /\ written # None
                    THEN WriteFile(fs, details, written[1], t) ELSE fs
             clean_urls == CleanUrls(fs1[details].content)
         IN  /\ proc.kind = "oserror" => written = None
             /\ last_call' = Call(proc, None, args.dry_run, r)
             /\ IF r.fatal THEN Abort(event)
                ELSE IF args.dry_run
                THEN /\ UNCHANGED <<fs, input_origin>>
                     /\ Advance(event, current_input, "katana")
                ELSE IF details \in DOMAIN fs1
                THEN /\ fs' = WriteFile(fs1, burp, JoinLines(clean_urls),
                                        fs1[details].origin)
                     /\ input_origin' = fs1[details].origin
                     /\ Advance(event, Some(JoinLines(clean_urls)), "katana")
                ELSE /\ fs' = fs1
                     /\ input_origin' = t
                     /\ Advance(event, None, "katana")
    /\ UNCHANGED <<args, os_environ, which_ok, tool_idx, missing_tools, targets,
                   dir_exists, proxy_url, current_env>>

\* 5. katana (lines 254-266)
Katana ==
    /\ pc = "katana"
    /\ \E proc \in ProcOutcomes :
         LET out == File(targets[t], "_katana_crawled_paths.txt")
             r == run_command(proc, Some(out), args.dry_run)
             event == RunEvent(5, "katana", current_input, input_origin,
                               Some(out), proc, r)
         IN  /\ last_call' = Call(proc, Some(out), args.dry_run, r)
             /\ IF r.fatal THEN Abort(event)
                ELSE /\ fs' = IF r.saved # None
                              THEN WriteFile(fs, out, r.saved[1], t) ELSE fs
                     /\ log' = Append(log, event)
                     /\ pc' = IF SeedCondition(args.proxy, args.dry_run)
                              THEN "seed" ELSE "summary"
                     /\ UNCHANGED <<t, current_input, input_origin, exit_code>>
    /\ UNCHANGED <<args, os_environ, which_ok, tool_idx, missing_tools, targets,
                   dir_exists, proxy_url, current_env>>

\* 6. seeding Burp (lines 269-276): httpx -l urls_for_burp_file
Seed ==
    /\ pc = "seed"
    /\ \E proc \in ProcOutcomes :
         LET burp == File(targets[t], "_urls_for_burp.txt")
             r == run_command(proc, None, args.dry_run)
             event == RunEvent(6, "httpx", None,
                               IF burp \in DOMAIN fs THEN fs[burp].origin ELSE 0,
                               None, proc, r)
         IN  /\ last_call' = Call(proc, None, args.dry_run, r)
             /\ IF r.fatal THEN Abort(event)
                ELSE /\ log' = Append(log, event)
                     /\ pc' = "summary"
                     /\ UNCHANGED <<t, current_input, input_origin, fs, exit_code>>
    /\ UNCHANGED <<args, os_environ, which_ok, tool_idx, missing_tools, targets,
                   dir_exists, proxy_url, current_env>>

\* variant: the summary block is not printed
Summary_Silent ==
    /\ pc = "summary"
    /\ NextTarget(current_input)
    /\ UNCHANGED <<last_call, args, os_environ, which_ok, tool_idx,
                   missing_tools, targets,
                   dir_exists, fs, proxy_url, current_env,
                   input_origin, log>>

\* final summary of a target (lines 279-289), then the next iteration
Summary ==
    /\ pc = "summary"
    /\ log' = Append(log, [Ev("summary") EXCEPT !.it = t])
    /\ NextTarget(current_input)
    /\ UNCHANGED <<last_call, args, os_environ, which_ok, tool_idx,
                   missing_tools, targets,
                   dir_exists, fs, proxy_url, current_env,
                   input_origin>>

Next ==
    \/ CheckTool
    \/ CheckVerdict
    \/ LoadTargets
    \/ Setup
    \/ Subfinder
    \/ Dnsx
    \/ Naabu
    \/ Httpx
    \/ Katana
    \/ Seed
    \/ Summary

Spec == Init /\ [][Next]_vars

\* the start of the run up to stage 1, with the list file content on record
NextLoader ==
    \/ CheckTool
    \/ CheckVerdict
    \/ LoadRecorded
    \/ Setup
    \/ Subfinder

SpecLoader == Init /\ [][NextLoader]_vars

(***************************************************************************)
(* Reading the log                                                         *)
(***************************************************************************)
Iterations == 1..Len(targets)

\* the stage commands (stages 1 to 5) invoked for the i-th target, in order
StageRuns(i) ==
    LET IsStage(e) == e.ev = "run" /\ e.it = i /\ e.stage \in 1..5
    IN  SelectSeq(log, IsStage)

InStageOrder(runs) == \A k \in DOMAIN runs : runs[k].stage = k

Min(S) == CHOOSE x \in S : \A y \in S : x <= y

\* the iteration of the i-th target has ended (by `continue` or at the end of
\* the loop body), so it was not cut off by sys.exit
Completed(i) == i < t \/ (i = t /\ pc = "exit" /\ exit_code = 0)

IsRun(e) == e.ev = "run"
LaunchFailed(e) == e.ev = "run" /\ e.kind = "oserror"

(***************************************************************************)
(* C1                                                                      *)
(***************************************************************************)
\* C1 as stated: at the end of every run with a non-empty target list, every
\* target of the list has had stages 1..n invoked in order, with n = 5 unless
\* one of the stages 1-4 yielded nothing (a launch failure counted as yielding
\* nothing), and then n = the index of the first such stage.
C1_CountForEveryTarget ==
    (pc = "exit" /\ targets # <<>>) =>
        \A i \in Iterations :
            LET runs == StageRuns(i)
                empties == {k \in DOMAIN runs :
                               k <= 4 /\ (runs[k].empty \/ runs[k].fatal)}
            IN  /\ InStageOrder(runs)
                /\ Len(runs) = IF empties = {} THEN 5 ELSE Min(empties)

\* C1 amended: for every target whose iteration has ended without a fatal
\* launch failure, stages 1..n were invoked in order, with n = 5 unless the
\* current input left by one of the stages 1-4 was empty, and then n = the
\* index of the first such stage.
C1_CountForCompletedTargets ==
    \A i \in Iterations :
        Completed(i) =>
            LET runs == StageRuns(i)
                empties == {k \in DOMAIN runs : k <= 4 /\ runs[k].empty}
            IN  /\ InStageOrder(runs)
                /\ Len(runs) = IF empties = {} THEN 5 ELSE Min(empties)

\* a run that ended normally after its first target stopped at stage 3 and its
\* second target went through all five stages
C1_Witness ==
    /\ pc = "exit" /\ exit_code = 0 /\ ~args.dry_run
    /\ Len(targets) >= 2
    /\ Len(StageRuns(1)) = 3 /\ StageRuns(1)[3].empty
    /\ Len(StageRuns(2)) = 5

(***************************************************************************)
(* C2                                                                      *)
(***************************************************************************)
\* C2: in dry-run mode no step of the run creates the output directory,
\* creates or modifies a file, or starts a subprocess.
C2_DryRunTouchesNothing ==
    [][args.dry_run =>
          /\ dir_exists' = dir_exists
          /\ fs' = fs
          /\ \A k \in DOMAIN log' : ~log'[k].launched]_vars

(***************************************************************************)
(* C3                                                                      *)
(***************************************************************************)
\* C3: in a non-dry run, a tool of the stages 1-4 that exits with a non-zero
\* status is followed by the warning of its stage, and no later run_command
\* call (stage or seeding) is made for that target.
C3_NonZeroExitSkipsTarget ==
    ~args.dry_run =>
        \A k \in DOMAIN log :
            (IsRun(log[k]) /\ log[k].stage \in 1..4
                /\ log[k].kind = "exit" /\ log[k].rc # 0) =>
                /\ k < Len(log)
                /\ log[k + 1].ev = "warn" /\ log[k + 1].it = log[k].it
                /\ \A j \in DOMAIN log :
                       j > k => ~(IsRun(log[j]) /\ log[j].it = log[k].it)

(***************************************************************************)
(* C4                                                                      *)
(***************************************************************************)
\* C4: no stage 2-5 is run on text or file content produced while an earlier
\* target of the list was processed.
C4_NoInputFromEarlierTarget ==
    \A k \in DOMAIN log :
        (IsRun(log[k]) /\ log[k].stage \in 2..5) =>
            log[k].origin \notin 1..(log[k].it - 1)

(***************************************************************************)
(* C5                                                                      *)
(***************************************************************************)
HasProxyVars(env, url) ==
    /\ {"HTTP_PROXY", "HTTPS_PROXY"} \subseteq DOMAIN env
    /\ env["HTTP_PROXY"] = url
    /\ env["HTTPS_PROXY"] = url

\* C5: with a proxy configured, every stage 4 and stage 5 call is passed an
\* environment whose HTTP_PROXY and HTTPS_PROXY are http://<address>; the
\* calls of the stages 1-3 are passed no environment, so their subprocess gets
\* os.environ, which no step of the script changes.
C5_ProxyEnvOnlyForHttpStages ==
    /\ [](ProxyConfigured =>
            \A k \in DOMAIN log :
                IsRun(log[k]) =>
                    /\ log[k].stage \in {4, 5} =>
                          /\ log[k].envarg # None
                          /\ HasProxyVars(log[k].env, ProxyUrl(args.proxy[1]))
                    /\ log[k].stage \in {1, 2, 3} =>
                          /\ log[k].envarg = None
                          /\ log[k].env = os_environ)
    /\ [][os_environ' = os_environ]_vars

\* a proxied run, started without proxy variables, that launched katana with
\* the proxy environment after launching subfinder without those variables
C5_Witness ==
    /\ ProxyConfigured /\ ~args.dry_run
    /\ \E k \in DOMAIN log :
          /\ IsRun(log[k]) /\ log[k].stage = 5 /\ log[k].launched
          /\ HasProxyVars(log[k].env, "http://127.0.0.1:8080")
    /\ \E k \in DOMAIN log :
          /\ IsRun(log[k]) /\ log[k].stage = 1 /\ log[k].launched
          /\ "HTTP_PROXY" \notin DOMAIN log[k].env

(***************************************************************************)
(* C6                                                                      *)
(***************************************************************************)
WhichEvents == {k \in DOMAIN log : log[k].ev = "which"}

\* C6: once a required tool has been found missing, the run only finishes the
\* check of all five tools and exits with status 1: no target is loaded, no
\* run_command call is made, and no step creates the output directory or
\* writes a file.
C6_MissingToolStopsRun ==
    /\ [](missing_tools # <<>> =>
            /\ pc \in {"check", "exit"}
            /\ targets = <<>> /\ t = 0
            /\ \A k \in DOMAIN log : ~IsRun(log[k])
            /\ pc = "exit" =>
                  /\ exit_code = 1
                  /\ {log[k].tool : k \in WhichEvents}
                        = {TOOL_CHAIN[i] : i \in DOMAIN TOOL_CHAIN}
                  /\ Cardinality(WhichEvents) = Len(TOOL_CHAIN))
    /\ [][missing_tools # <<>> => (dir_exists' = dir_exists /\ fs' = fs)]_vars

\* the run has exited after finding the first tool missing and the others
\* installed, in a place where the output directory does not exist
C6_Witness ==
    /\ pc = "exit" /\ exit_code = 1
    /\ missing_tools = <<"subfinder">>
    /\ ~dir_exists

(***************************************************************************)
(* C7                                                                      *)
(***************************************************************************)
PreExisting(target) ==
    {s \in Suffixes : File(target, s) \in DOMAIN fs
                         /\ fs[File(target, s)].origin = 0}

\* stage 1 of the i-th target left no output (empty stdout, failing tool or
\* launch failure)
Stage1Empty(i) ==
    \E k \in DOMAIN log :
        /\ IsRun(log[k]) /\ log[k].it = i /\ log[k].stage = 1
        /\ (log[k].empty \/ log[k].fatal)

\* C7: at the exit of a non-dry run with a single target whose stage 1
\* yielded nothing, in a directory that held no file of that target, the
\* output directory exists and holds none of the five later files.
C7_NoLaterFilesAfterEmptyStage1 ==
    (/\ pc = "exit" /\ ~args.dry_run
     /\ Len(targets) = 1 /\ Stage1Empty(1)
     /\ PreExisting(targets[1]) = {}) =>
        /\ dir_exists
        /\ \A s \in LaterSuffixes : File(targets[1], s) \notin DOMAIN fs

\* such a run has ended normally: subfinder ran and printed nothing
C7_Witness ==
    /\ pc = "exit" /\ exit_code = 0 /\ ~args.dry_run
    /\ Len(targets) = 1 /\ Stage1Empty(1)
    /\ \E k \in DOMAIN log : IsRun(log[k]) /\ log[k].launched /\ log[k].rc = 0
    /\ dir_exists /\ fs = <<>>

(***************************************************************************)
(* C8                                                                      *)
(***************************************************************************)
Printed(kind) == \E k \in DOMAIN log : log[k].ev = kind

\* C8: the exit status is non-zero exactly when a required tool is missing,
\* the list file does not exist, the target set is empty (a list without a
\* non-blank line, or an empty -d value) or a subprocess launch failed;
\* otherwise the loop went over every target and the status
\* is 0, whatever was skipped.
C8_ExitStatus ==
    pc = "exit" =>
        /\ exit_code # 0 <=>
              \/ missing_tools # <<>>
              \/ Printed("nofile")
              \/ Printed("notargets") \/ Printed("typeerror")
              \/ \E k \in DOMAIN log : LaunchFailed(log[k])
        /\ exit_code = 0 => (targets # <<>> /\ t = Len(targets))
        /\ exit_code \in {0, 1}

\* a run that ended with status 0 although a tool exited with a non-zero
\* status and the target was skipped
C8_Witness ==
    /\ pc = "exit" /\ exit_code = 0
    /\ \E k \in DOMAIN log :
          /\ IsRun(log[k]) /\ log[k].kind = "exit" /\ log[k].rc # 0
          /\ k < Len(log) /\ log[k + 1].ev = "warn"

(***************************************************************************)
(* C9                                                                      *)
(***************************************************************************)
\* C9: a launch failure is the last run_command call of the run: the process
\* has exited with status 1 and the log holds nothing after that call but the
\* critical-error line (no stage, seeding, warning or summary).
C9_LaunchFailureAborts ==
    \A k \in DOMAIN log :
        LaunchFailed(log[k]) =>
            /\ pc = "exit" /\ exit_code = 1
            /\ Len(log) = k + 1 /\ log[k + 1].ev = "critical"

\* the launch of dnsx failed for the first of several targets
C9_Witness ==
    /\ pc = "exit" /\ Len(targets) >= 2 /\ t = 1
    /\ \E k \in DOMAIN log : LaunchFailed(log[k]) /\ log[k].stage = 2

(***************************************************************************)
(* C10                                                                     *)
(***************************************************************************)
SeedRuns(i) == {k \in DOMAIN log : IsRun(log[k]) /\ log[k].it = i
                                      /\ log[k].stage = 6}

\* stage 5 of the i-th target was invoked and has returned
Stage5Returned(i) ==
    \E k \in DOMAIN log :
        IsRun(log[k]) /\ log[k].it = i /\ log[k].stage = 5 /\ ~log[k].fatal

\* the i-th iteration is past the seeding step
PastSeeding(i) == i < t \/ (i = t /\ pc \in {"summary", "exit"})

\* C10: the seeding call is made for a target exactly when a proxy is
\* configured, the run is not a dry run and stage 5 of that target was invoked
\* and has returned; it is made at most once per iteration, after stage 5.
C10_SeederIffProxyAndCompletion ==
    \A i \in Iterations :
        /\ Cardinality(SeedRuns(i)) <= 1
        /\ \A k \in SeedRuns(i) :
              /\ ProxyConfigured /\ ~args.dry_run
              /\ \E j \in 1..(k - 1) :
                    /\ IsRun(log[j]) /\ log[j].it = i /\ log[j].stage = 5
                    /\ ~log[j].fatal
        /\ (PastSeeding(i) /\ ProxyConfigured /\ ~args.dry_run
               /\ Stage5Returned(i)) => SeedRuns(i) # {}

\* the seeding call has been made after a failing katana
C10_Witness ==
    /\ pc = "summary"
    /\ SeedRuns(t) # {}
    /\ \E k \in DOMAIN log :
          IsRun(log[k]) /\ log[k].it = t /\ log[k].stage = 5 /\ log[k].rc # 0

(***************************************************************************)
(* C11                                                                     *)
(***************************************************************************)
\* what follows the k-th log entry, a seeding call of iteration i, when that
\* call does not change the course of the run: the summary of the target,
\* then stage 1 of the next target or the normal end of the run
RunGoesOnAfter(k) ==
    LET i == log[k].it IN
    /\ k = Len(log) => pc = "summary" /\ t = i
    /\ k < Len(log) => log[k + 1].ev = "summary" /\ log[k + 1].it = i
    /\ (k + 1 = Len(log) /\ i = Len(targets)) => pc = "exit" /\ exit_code = 0
    /\ (k + 1 = Len(log) /\ i < Len(targets)) => pc = "subfinder" /\ t = i + 1
    /\ k + 1 < Len(log) =>
          IsRun(log[k + 2]) /\ log[k + 2].stage = 1 /\ log[k + 2].it = i + 1

IsSeed(e) == IsRun(e) /\ e.stage = 6

\* C11 as stated: after a seeding call that failed in any way (launch failure
\* or non-zero exit status) the run goes on as after a successful one.
C11_SeederFailureHarmless ==
    \A k \in DOMAIN log :
        (IsSeed(log[k]) /\ (log[k].kind = "oserror" \/ log[k].rc # 0)) =>
            RunGoesOnAfter(k)

\* C11 amended: after a seeding call whose tool exited with a non-zero status
\* the run goes on as after a successful one, and a later non-zero exit
\* status of the run is due to a launch failure of a later call.
C11_SeederExitFailureHarmless ==
    \A k \in DOMAIN log :
        (IsSeed(log[k]) /\ log[k].kind = "exit" /\ log[k].rc # 0) =>
            /\ RunGoesOnAfter(k)
            /\ (pc = "exit" /\ exit_code # 0) =>
                  \E j \in DOMAIN log : j > k /\ LaunchFailed(log[j])

\* the seeder of the first target exited with a non-zero status and the run
\* ended normally after the second target
C11_Witness ==
    /\ pc = "exit" /\ exit_code = 0 /\ Len(targets) >= 2
    /\ \E k \in DOMAIN log :
          /\ IsSeed(log[k]) /\ log[k].it = 1 /\ log[k].rc # 0
          /\ log[k + 1].ev = "summary"

(***************************************************************************)
(* C12                                                                     *)
(***************************************************************************)
SummaryOf(i) == {k \in DOMAIN log : log[k].ev = "summary" /\ log[k].it = i}

\* the entries of the log that belong to iterations after the i-th
LaterEntries(i) == {k \in DOMAIN log : log[k].it > i}

\* C12 as stated: every target whose iteration has ended, after five stages
\* or after a short-circuit, has its summary in the log, before any entry of
\* a later target.
C12_SummaryForEveryTarget ==
    \A i \in Iterations :
        Completed(i) =>
            /\ SummaryOf(i) # {}
            /\ \A k \in SummaryOf(i), j \in LaterEntries(i) : k < j

\* C12 amended: a target whose iteration has ended has its summary in the log
\* exactly when all five stages were run for it (a short-circuited target gets
\* the warning only), exactly once, and before any entry of a later target.
C12_SummaryAfterFiveStages ==
    \A i \in Iterations :
        Completed(i) =>
            /\ SummaryOf(i) # {} <=> Len(StageRuns(i)) = 5
            /\ Cardinality(SummaryOf(i)) <= 1
            /\ \A k \in SummaryOf(i), j \in LaterEntries(i) : k < j

\* the first target went through five stages and got its summary, the second
\* one was short-circuited and got none
C12_Witness ==
    /\ pc = "exit" /\ exit_code = 0 /\ Len(targets) >= 2
    /\ Len(StageRuns(1)) = 5 /\ SummaryOf(1) # {}
    /\ Len(StageRuns(2)) = 2 /\ SummaryOf(2) = {}

(***************************************************************************)
(* Lines of a text, read off the positions of its characters               *)
(***************************************************************************)
Max(S) == CHOOSE x \in S : \A y \in S : x >= y

\* the positions at which a line of text c starts, and where that line ends
LineStarts(c) == {p \in 1..Len(c) : p = 1 \/ c[p - 1] = "\n"}
LineEnd(c, p) == Min({i \in p..Len(c) : c[i] = "\n"} \cup {Len(c)})

\* the positions of the non-whitespace characters of the line starting at p
Ink(c, p) == {i \in p..LineEnd(c, p) : c[i] \notin {" ", "\n"}}

NonBlankStarts(c) == {p \in LineStarts(c) : Ink(c, p) # {}}

\* the start of the n-th non-blank line
NthStart(c, n) ==
    CHOOSE p \in NonBlankStarts(c) :
        Cardinality({x \in NonBlankStarts(c) : x <= p}) = n

\* the non-blank lines of c without their surrounding whitespace, in order
TrimmedLines(c) ==
    [n \in 1..Cardinality(NonBlankStarts(c)) |->
        LET ink == Ink(c, NthStart(c, n)) IN SubSeq(c, Min(ink), Max(ink))]

\* the first whitespace-delimited token of every non-blank line of c, in order
FirstWords(c) ==
    [n \in 1..Cardinality(NonBlankStarts(c)) |->
        LET ink == Ink(c, NthStart(c, n))
            q == Min(ink)
        IN  SubSeq(c, q, Max({r \in ink : \A x \in q..r : x \in ink}))]

(***************************************************************************)
(* C14                                                                     *)
(***************************************************************************)
Stage5Of(i) == {k \in DOMAIN log : IsRun(log[k]) /\ log[k].it = i
                                      /\ log[k].stage = 5}

\* C14: in a non-dry run that has passed stage 4 of the current target, the
\* clean-URL file holds the first tokens of the non-blank lines of the details
\* file, in order and joined by newlines; the same text is the current input
\* and the input of the stage 5 call.
C14_CleanUrlsAreFirstTokens ==
    (~args.dry_run /\ pc \in {"katana", "seed", "summary"}) =>
        LET details == File(targets[t], "_httpx_details.txt")
            burp == File(targets[t], "_urls_for_burp.txt")
            clean == JoinLines(FirstWords(fs[details].content))
        IN  /\ details \in DOMAIN fs /\ burp \in DOMAIN fs
            /\ fs[burp].content = clean
            /\ current_input = Some(clean)
            /\ pc \in {"seed", "summary"} =>
                  /\ Stage5Of(t) # {}
                  /\ \A k \in Stage5Of(t) : log[k].input = Some(clean)

\* katana was fed "a\nb", from a details file with a blank line, leading
\* whitespace and a second field
C14_Witness ==
    /\ ~args.dry_run /\ pc = "summary"
    /\ fs[File(targets[t], "_httpx_details.txt")].content
          = <<" ", "a", "\n", "\n", "b", " ", "a">>
    /\ \E k \in Stage5Of(t) : log[k].input = Some(<<"a", "\n", "b">>)

(***************************************************************************)
(* C16                                                                     *)
(***************************************************************************)
Stage1Of(i) == {k \in DOMAIN log : IsRun(log[k]) /\ log[k].it = i
                                      /\ log[k].stage = 1}

\* C16: the calls are made one at a time, target after target in list order
\* and stage after stage: a call is made only after every earlier call has
\* returned, the calls of a target come before those of the next target and
\* in increasing stage order, and at the end of a run without a launch failure
\* stage 1 was invoked exactly once for every target of the list.
C16_StrictlySequential ==
    /\ \A j, k \in DOMAIN log :
          (j < k /\ IsRun(log[j]) /\ IsRun(log[k])) =>
              /\ ~log[j].fatal
              /\ log[j].it <= log[k].it
              /\ log[j].it = log[k].it => log[j].stage < log[k].stage
    /\ \A i \in Iterations : Cardinality(Stage1Of(i)) <= 1
    /\ (pc = "exit" /\ targets # <<>>
           /\ ~\E k \in DOMAIN log : LaunchFailed(log[k])) =>
          \A i \in Iterations : Cardinality(Stage1Of(i)) = 1

\* the first target was skipped after a failing subfinder and the second one
\* went through all its stages and the seeder
C16_Witness ==
    /\ pc = "exit" /\ exit_code = 0 /\ Len(targets) >= 2
    /\ Len(StageRuns(1)) = 1 /\ StageRuns(1)[1].rc # 0
    /\ Len(StageRuns(2)) = 5 /\ SeedRuns(2) # {}

(***************************************************************************)
(* C19                                                                     *)
(***************************************************************************)
Exists(target, suffix) == File(target, suffix) \in DOMAIN fs

DistinctTargets ==
    \A i, j \in Iterations : i # j => targets[i] # targets[j]

\* C19: in a non-dry run over pairwise distinct targets, for every target that
\* had no file in the output directory beforehand, each per-target file exists
\* only if the file of the stage before it exists, and the katana file only if
\* the clean-URL file exists and is not empty.
C19_FilesPrefixClosed ==
    (~args.dry_run /\ DistinctTargets) =>
        \A i \in Iterations :
            LET tg == targets[i] IN
            PreExisting(tg) = {} =>
                /\ Exists(tg, "_dnsx.txt") => Exists(tg, "_subfinder.txt")
                /\ Exists(tg, "_naabu.txt") => Exists(tg, "_dnsx.txt")
                /\ Exists(tg, "_urls_for_burp.txt") => Exists(tg, "_naabu.txt")
                /\ Exists(tg, "_katana_crawled_paths.txt") =>
                      /\ Exists(tg, "_urls_for_burp.txt")
                      /\ fs[File(tg, "_urls_for_burp.txt")].content # <<>>

\* two distinct targets in a directory that was empty: the first has all its
\* files, the second stopped after dnsx
C19_Witness ==
    /\ ~args.dry_run /\ pc = "exit" /\ Len(targets) = 2 /\ DistinctTargets
    /\ \A f \in DOMAIN fs : fs[f].origin # 0
    /\ \A s \in Suffixes : Exists(targets[1], s)
    /\ {s \in Suffixes : Exists(targets[2], s)} = {"_subfinder.txt", "_dnsx.txt"}

(***************************************************************************)
(* C15                                                                     *)
(***************************************************************************)
\* the latest run_command call started a subprocess, which ran and exited
SubprocessExited == last_call.made /\ last_call.proc.kind = "exit"

\* C15 as stated: for a subprocess that ran and exited, run_command does not
\* raise and returns the exit status, stdout and stderr of that subprocess.
C15_ResultCarriesOutcome ==
    SubprocessExited =>
        /\ ~last_call.fatal
        /\ last_call.returncode = last_call.proc.rc
        /\ last_call.stdout = last_call.proc.stdout
        /\ last_call.stderr = last_call.proc.stderr

\* C15 amended: for a subprocess that ran and exited, run_command does not
\* raise and returns its stderr; after exit status 0 the result carries
\* status 0 and its stdout, after a non-zero status c the result carries
\* status 1 and an empty stdout.
C15_ResultOfExitedSubprocess ==
    SubprocessExited =>
        /\ ~last_call.fatal
        /\ last_call.stderr = last_call.proc.stderr
        /\ last_call.proc.rc = 0 =>
              /\ last_call.returncode = 0
              /\ last_call.stdout = last_call.proc.stdout
        /\ last_call.proc.rc # 0 =>
              /\ last_call.returncode = 1
              /\ last_call.stdout = <<>>

\* a tool printed "a\n" and "e" and exited with status 2
C15_Witness ==
    /\ SubprocessExited
    /\ last_call.proc.rc = 2
    /\ last_call.proc.stdout = <<"a", "\n">>
    /\ last_call.proc.stderr = <<"e">>
    /\ last_call.returncode = 1 /\ last_call.stdout = <<>>
    /\ last_call.stderr = <<"e">>

(***************************************************************************)
(* C17                                                                     *)
(***************************************************************************)
\* the latest run_command call was given an output file in a non-dry run
\* and has returned
ReturnedWithOutputFile ==
    /\ last_call.made /\ ~last_call.dry_run
    /\ last_call.ofile # None /\ ~last_call.fatal

\* C17 as stated: after such a call the file holds the stdout of the
\* subprocess, whatever its exit status.
C17_OutputFileHoldsStdout ==
    ReturnedWithOutputFile =>
        /\ last_call.ofile[1] \in DOMAIN fs
        /\ fs[last_call.ofile[1]].content = last_call.proc.stdout

\* C17 amended: a step that makes such a call leaves the stdout of the
\* subprocess in the file when the exit status is 0, and leaves the file as it
\* was (absent, or with its previous content) when the exit status is not 0.
C17_OutputFileWrittenOnSuccess ==
    [][(pc \in {"dnsx", "naabu", "katana"} /\ ReturnedWithOutputFile') =>
          LET f == last_call'.ofile[1] IN
          IF last_call'.proc.rc = 0
          THEN /\ f \in DOMAIN fs'
               /\ fs'[f].content = last_call'.proc.stdout
          ELSE /\ f \in DOMAIN fs' <=> f \in DOMAIN fs
               /\ f \in DOMAIN fs => fs'[f] = fs[f]]_vars

\* dnsx printed "a\n" and exited with status 2: no dnsx file was written
C17_Witness ==
    /\ ReturnedWithOutputFile
    /\ last_call.proc.rc = 2 /\ last_call.proc.stdout = <<"a", "\n">>
    /\ last_call.ofile[1] \notin DOMAIN fs

(***************************************************************************)
(* C18                                                                     *)
(***************************************************************************)
RunsOf(i) == {k \in DOMAIN log : IsRun(log[k]) /\ log[k].it = i}

\* C18: in a dry run every run_command call returns the synthetic result
\* (status 0, "Simulated output\n") without starting a subprocess, no stage
\* is short-circuited, the seeding call is never made, and every target whose
\* iteration has ended had exactly the five stage calls, in order.
C18_DryRunPlansEveryStage ==
    args.dry_run =>
        /\ last_call.made =>
              /\ ~last_call.fatal /\ last_call.returncode = 0
              /\ last_call.stdout = SimulatedOutput /\ last_call.stderr = <<>>
        /\ \A k \in DOMAIN log :
              /\ log[k].ev # "warn"
              /\ IsRun(log[k]) =>
                    /\ log[k].stage # 6
                    /\ ~log[k].launched /\ ~log[k].empty
        /\ \A i \in Iterations :
              Completed(i) =>
                  /\ Len(StageRuns(i)) = 5 /\ InStageOrder(StageRuns(i))
                  /\ Cardinality(RunsOf(i)) = 5
                  /\ SummaryOf(i) # {}

\* a dry run with a proxy has ended after planning five stages for each of
\* two targets
C18_Witness ==
    /\ args.dry_run /\ ProxyConfigured
    /\ pc = "exit" /\ exit_code = 0 /\ Len(targets) = 2
    /\ Len(StageRuns(1)) = 5 /\ Len(StageRuns(2)) = 5

(***************************************************************************)
(* C13                                                                     *)
(***************************************************************************)
\* the contents of the list file that the loader has read
ReadContents ==
    {log[k].input[1] : k \in {j \in DOMAIN log : log[j].ev = "read"
                                                   /\ log[j].input # None}}

\* C13: once a list file has been read, targets is the sequence of its
\* non-blank lines without their surrounding whitespace, in file order and
\* with repetitions kept; when that sequence is empty the run has exited with
\* status 1 and no run_command call was made, otherwise the run goes on.
C13_LoaderTrimsAndKeepsOrder ==
    \A c \in ReadContents :
        /\ targets = TrimmedLines(c)
        /\ TrimmedLines(c) = <<>> =>
              /\ pc = "exit" /\ exit_code = 1
              /\ \A k \in DOMAIN log : ~IsRun(log[k])
        /\ TrimmedLines(c) # <<>> => (pc = "exit" => exit_code = 0 \/ t >= 1)

\* the file "a\n\n a" was loaded as the two targets a, a and stage 1 of the
\* first one has run
C13_Witness ==
    /\ <<"a", "\n", "\n", "a">> \in ReadContents
    /\ targets = <<<<"a">>, <<"a">>>>
    /\ \E k \in DOMAIN log : IsRun(log[k]) /\ log[k].stage = 1

====
